---- MODULE Spec2Model ----
(***************************************************************************)
(* The room server of lwshakib/tic-tac-toe-game (server/src/index.ts):     *)
(* the rooms Map, the socket.io connections and channels, and one action   *)
(* per socket event handler.  Every handler runs to completion (node's     *)
(* event loop), so each handler is one atomic action.                      *)
(***************************************************************************)
EXTENDS Integers, Sequences, FiniteSets, TLC

VARIABLES
    sockets,    \* socket id -> "unborn" | "live" | "closed"
    rooms,      \* the rooms Map: canonical key -> Room
    channels,   \* socket.io channels: canonical key -> set of joined socket ids
    out,        \* the messages emitted by the last handler
    cwBoard,    \* a board handed to checkWinner (checkWinner specification)
    cwResult    \* what checkWinner returned for cwBoard

vars == <<sockets, rooms, channels, out, cwBoard, cwResult>>

-----------------------------------------------------------------------------
(* Bounds of the model *)

\* number of socket connections ever opened; ids are given in connect order
MaxConns == 3
\* a player's session score is followed up to this value
MaxScore == 1
\* how many of the games of Games the players play from
NumGames == 3
\* the same in the specification of the lobby
LobbyGames == 0

Ids == 1..MaxConns

-----------------------------------------------------------------------------
(* Values *)

Null == "null"
Undefined == "undefined"
Draw == "Draw"
\* checkWinner has not been called
Pending == "pending"

\* room names are sequences of characters, so that toUpperCase is computed
RoomNames == { <<"a", "b">> }
\* the same room as the clients that join it spell it
JoinNames == { <<"A", "b">> }
\* a name that is never created
GhostNames == { <<"z">> }
\* the display name each client uses
NameOf(s) == CASE s = 1 -> "Alice" [] s = 2 -> "Bob" [] OTHER -> "Draw"
CreatePasswords == { Undefined, "", "pw" }
JoinPasswords == { Undefined, "", "pw", "xx" }
Indices == -1..9
Cells == 0..8

UpperChar(c) ==
    CASE c = "a" -> "A"
      [] c = "b" -> "B"
      [] c = "c" -> "C"
      [] c = "z" -> "Z"
      [] OTHER -> c

\* String.prototype.toUpperCase
ToUpperCase(name) == [i \in DOMAIN name |-> UpperChar(name[i])]

Keys == { ToUpperCase(n) : n \in RoomNames \cup GhostNames }

EmptyBoard == [i \in Cells |-> Null]

-----------------------------------------------------------------------------
(* checkWinner *)

lines ==
    << <<0, 1, 2>>, <<3, 4, 5>>, <<6, 7, 8>>,
       <<0, 3, 6>>, <<1, 4, 7>>, <<2, 5, 8>>,
       <<0, 4, 8>>, <<2, 4, 6>> >>

\* the condition of the loop body for line number n
LineHit(board, n) ==
    /\ board[lines[n][1]] # Null
    /\ board[lines[n][1]] = board[lines[n][2]]
    /\ board[lines[n][1]] = board[lines[n][3]]

RECURSIVE ScanLines(_, _)
\* the for loop over lines, from line number n on: the first hit returns
ScanLines(board, n) ==
    IF n > Len(lines) THEN Null
    ELSE IF LineHit(board, n) THEN board[lines[n][1]]
    ELSE ScanLines(board, n + 1)

\* variant: a full board is not a draw
checkWinnerNoDraw(board) == ScanLines(board, 1)

\* variant: the full board is looked at before the lines
checkWinnerDrawFirst(board) ==
    IF \A i \in Cells : board[i] # Null THEN Draw
    ELSE ScanLines(board, 1)

checkWinner(board) ==
    LET w == ScanLines(board, 1) IN
    IF w # Null THEN w
    ELSE IF \A i \in Cells : board[i] # Null THEN Draw
    ELSE Null

-----------------------------------------------------------------------------
(* Messages *)

LiveSockets == { s \in Ids : sockets[s] = "live" }

\* Array.from(rooms.values()).map(...): the order of the Map is not modelled
RoomListOf(rs) ==
    { [name |-> rs[k].name, players |-> Len(rs[k].players),
       isPrivate |-> rs[k].isPrivate, status |-> rs[k].status] : k \in DOMAIN rs }

getRoomList == RoomListOf(rooms)

\* one emitted message: event, recipients, text (errors), room snapshot
\* (a sequence of zero or one Room), room list
Msg(ev, to, text, room, list) ==
    [ev |-> ev, to |-> to, text |-> text, room |-> room, list |-> list]

ErrorMsg(s, text) == Msg("error", {s}, text, <<>>, {})
RoomListMsg(to, rs) == Msg("room-list", to, "", <<>>, RoomListOf(rs))
RoomCreatedMsg(s, room) == Msg("room-created", {s}, "", <<room>>, {})
RoomUpdatedMsg(to, room) == Msg("room-updated", to, "", <<room>>, {})

-----------------------------------------------------------------------------
(* The Map *)

\* new Map()
EmptyMap == [x \in {} |-> Null]

MapSet(rs, k, room) == [x \in DOMAIN rs \cup {k} |-> IF x = k THEN room ELSE rs[x]]

Init ==
    /\ sockets = [s \in Ids |-> "unborn"]
    /\ rooms = EmptyMap
    /\ channels = [k \in Keys |-> {}]
    /\ out = {}
    /\ cwBoard = EmptyBoard
    /\ cwResult = Pending

-----------------------------------------------------------------------------
(* Handlers *)

\* io.on("connection")
Connect(s) ==
    /\ sockets[s] = "unborn"
    /\ \A t \in Ids : t < s => sockets[t] # "unborn"
    /\ sockets' = [sockets EXCEPT ![s] = "live"]
    /\ out' = { RoomListMsg({s}, rooms) }
    /\ UNCHANGED <<rooms, channels, cwBoard, cwResult>>

\* variant: the creator starts without a score entry
NewRoomNoScore(s, roomName, playerName, isPrivate, password) ==
    [ name |-> roomName,
      players |-> << [id |-> s, name |-> playerName, symbol |-> "X"] >>,
      board |-> EmptyBoard,
      currentPlayerIndex |-> 0,
      isPrivate |-> isPrivate,
      password |-> IF isPrivate THEN password ELSE Undefined,
      status |-> "waiting",
      winner |-> Null,
      scores |-> EmptyMap,
      resetVotes |-> <<>> ]

NewRoom(s, roomName, playerName, isPrivate, password) ==
    [ name |-> roomName,
      players |-> << [id |-> s, name |-> playerName, symbol |-> "X"] >>,
      board |-> EmptyBoard,
      currentPlayerIndex |-> 0,
      isPrivate |-> isPrivate,
      password |-> IF isPrivate THEN password ELSE Undefined,
      status |-> "waiting",
      winner |-> Null,
      scores |-> [x \in {s} |-> 0],
      resetVotes |-> <<>> ]

\* variant: the name is looked up as it was sent
CreateRoomRoomsAsSent(s, roomName, playerName, isPrivate, password) ==
    IF roomName \in DOMAIN rooms THEN rooms
    ELSE MapSet(rooms, ToUpperCase(roomName),
                NewRoom(s, roomName, playerName, isPrivate, password))

\* the Map after a create-room
CreateRoomRooms(s, roomName, playerName, isPrivate, password) ==
    IF ToUpperCase(roomName) \in DOMAIN rooms THEN rooms
    ELSE MapSet(rooms, ToUpperCase(roomName),
                NewRoom(s, roomName, playerName, isPrivate, password))

\* the channels after a create-room: socket.join(roomId)
CreateRoomChannels(s, roomName) ==
    IF ToUpperCase(roomName) \in DOMAIN rooms THEN channels
    ELSE [channels EXCEPT ![ToUpperCase(roomName)] = @ \cup {s}]

\* the messages a create-room emits
CreateRoomOut(s, roomName, playerName, isPrivate, password) ==
    IF ToUpperCase(roomName) \in DOMAIN rooms
    THEN { ErrorMsg(s, "Room ID already exists") }
    ELSE { RoomCreatedMsg(s, NewRoom(s, roomName, playerName, isPrivate, password)),
           RoomListMsg(LiveSockets,
                       CreateRoomRooms(s, roomName, playerName, isPrivate, password)) }

\* socket.on("create-room")
CreateRoom(s, roomName, playerName, isPrivate, password) ==
    /\ sockets[s] = "live"
    /\ rooms' = CreateRoomRooms(s, roomName, playerName, isPrivate, password)
    /\ channels' = CreateRoomChannels(s, roomName)
    /\ out' = CreateRoomOut(s, roomName, playerName, isPrivate, password)
    /\ UNCHANGED <<sockets, cwBoard, cwResult>>

\* the Player pushed by join-room
NewPlayer(room, s, playerName) ==
    [id |-> s, name |-> playerName,
     symbol |-> IF Len(room.players) = 0 THEN "X" ELSE "O"]

\* the Room after a successful join-room
Admit(room, s, playerName) ==
    LET players == Append(room.players, NewPlayer(room, s, playerName)) IN
    [room EXCEPT
        !.players = players,
        !.scores = [x \in DOMAIN room.scores \cup {s} |->
                        IF x = s THEN 0 ELSE room.scores[x]],
        !.status = IF Len(players) = 2 THEN "playing" ELSE room.status]

\* variant: an absent room is answered like a full one
JoinErrorAbsentAsFull(roomId, password, isLinkJoin) ==
    LET key == ToUpperCase(roomId) IN
    IF key \notin DOMAIN rooms THEN "Room is full"
    ELSE IF Len(rooms[key].players) >= 2 THEN "Room is full"
    ELSE IF ~isLinkJoin /\ rooms[key].isPrivate /\ rooms[key].password # password
         THEN "Incorrect password"
    ELSE Null

\* variant: a link join is checked like any other
JoinErrorNoLink(roomId, password, isLinkJoin) ==
    LET key == ToUpperCase(roomId) IN
    IF key \notin DOMAIN rooms THEN "Room ID not found"
    ELSE IF Len(rooms[key].players) >= 2 THEN "Room is full"
    ELSE IF rooms[key].isPrivate /\ rooms[key].password # password
         THEN "Incorrect password"
    ELSE Null

\* variant: the full check lets a third player in
JoinErrorOffByOne(roomId, password, isLinkJoin) ==
    LET key == ToUpperCase(roomId) IN
    IF key \notin DOMAIN rooms THEN "Room ID not found"
    ELSE IF Len(rooms[key].players) > 2 THEN "Room is full"
    ELSE IF ~isLinkJoin /\ rooms[key].isPrivate /\ rooms[key].password # password
         THEN "Incorrect password"
    ELSE Null

\* the error join-room answers with, or Null when the player is admitted
JoinError(roomId, password, isLinkJoin) ==
    LET key == ToUpperCase(roomId) IN
    IF key \notin DOMAIN rooms THEN "Room ID not found"
    ELSE IF Len(rooms[key].players) >= 2 THEN "Room is full"
    ELSE IF ~isLinkJoin /\ rooms[key].isPrivate /\ rooms[key].password # password
         THEN "Incorrect password"
    ELSE Null

\* the Map after a join-room
JoinRoomRooms(s, roomId, playerName, password, isLinkJoin) ==
    IF JoinError(roomId, password, isLinkJoin) # Null THEN rooms
    ELSE [rooms EXCEPT ![ToUpperCase(roomId)] = Admit(@, s, playerName)]

\* the channels after a join-room: socket.join(roomId.toUpperCase())
JoinRoomChannels(s, roomId, password, isLinkJoin) ==
    IF JoinError(roomId, password, isLinkJoin) # Null THEN channels
    ELSE [channels EXCEPT ![ToUpperCase(roomId)] = @ \cup {s}]

\* the messages a join-room emits
JoinRoomOut(s, roomId, playerName, password, isLinkJoin) ==
    LET key == ToUpperCase(roomId)
        err == JoinError(roomId, password, isLinkJoin)
        after == JoinRoomRooms(s, roomId, playerName, password, isLinkJoin)
    IN
    IF err # Null THEN { ErrorMsg(s, err) }
    ELSE { RoomUpdatedMsg(channels[key] \cup {s}, after[key]),
           RoomListMsg(LiveSockets, after) }

\* socket.on("join-room")
JoinRoom(s, roomId, playerName, password, isLinkJoin) ==
    /\ sockets[s] = "live"
    /\ rooms' = JoinRoomRooms(s, roomId, playerName, password, isLinkJoin)
    /\ channels' = JoinRoomChannels(s, roomId, password, isLinkJoin)
    /\ out' = JoinRoomOut(s, roomId, playerName, password, isLinkJoin)
    /\ UNCHANGED <<sockets, cwBoard, cwResult>>

\* the player whose turn it is: room.players[room.currentPlayerIndex],
\* as a sequence of zero (undefined) or one Player
CurrentPlayer(room) ==
    IF room.currentPlayerIndex + 1 \in DOMAIN room.players
    THEN << room.players[room.currentPlayerIndex + 1] >>
    ELSE <<>>

\* variant: the status is not required to be playing
MoveAcceptedAnyStatus(s, roomId, index) ==
    LET key == ToUpperCase(roomId) IN
    /\ key \in DOMAIN rooms
    /\ CurrentPlayer(rooms[key]) # <<>>
    /\ CurrentPlayer(rooms[key])[1].id = s
    /\ ~(index < 0 \/ index > 8)
    /\ rooms[key].board[index] = Null

\* variant: the cell is not required to be empty
MoveAcceptedOccupied(s, roomId, index) ==
    LET key == ToUpperCase(roomId) IN
    /\ key \in DOMAIN rooms
    /\ rooms[key].status = "playing"
    /\ CurrentPlayer(rooms[key]) # <<>>
    /\ CurrentPlayer(rooms[key])[1].id = s
    /\ ~(index < 0 \/ index > 8)

\* variant: the sender is not required to be the current player
MoveAcceptedAnySender(s, roomId, index) ==
    LET key == ToUpperCase(roomId) IN
    /\ key \in DOMAIN rooms
    /\ rooms[key].status = "playing"
    /\ CurrentPlayer(rooms[key]) # <<>>
    /\ ~(index < 0 \/ index > 8)
    /\ rooms[key].board[index] = Null

\* the three early returns of make-move all pass
MoveAccepted(s, roomId, index) ==
    LET key == ToUpperCase(roomId) IN
    /\ key \in DOMAIN rooms
    /\ rooms[key].status = "playing"
    /\ CurrentPlayer(rooms[key]) # <<>>
    /\ CurrentPlayer(rooms[key])[1].id = s
    /\ ~(index < 0 \/ index > 8)
    /\ rooms[key].board[index] = Null

\* variant: a win is recorded without the score
ApplyMoveNoScore(room, index) ==
    LET currentPlayer == CurrentPlayer(room)[1]
        board == [room.board EXCEPT ![index] = currentPlayer.symbol]
        winner == checkWinner(board)
    IN
    IF winner # Null
    THEN IF winner = Draw
         THEN [room EXCEPT !.board = board, !.status = "ended", !.winner = Draw]
         ELSE [room EXCEPT !.board = board, !.status = "ended",
                           !.winner = currentPlayer.name]
    ELSE [room EXCEPT !.board = board,
                      !.currentPlayerIndex = 1 - room.currentPlayerIndex]

\* the Room after an accepted move of its current player at index
ApplyMove(room, index) ==
    LET currentPlayer == CurrentPlayer(room)[1]
        board == [room.board EXCEPT ![index] = currentPlayer.symbol]
        winner == checkWinner(board)
        score == IF currentPlayer.id \in DOMAIN room.scores
                 THEN room.scores[currentPlayer.id] ELSE 0
    IN
    IF winner # Null
    THEN IF winner = Draw
         THEN [room EXCEPT !.board = board, !.status = "ended", !.winner = Draw]
         ELSE [room EXCEPT !.board = board, !.status = "ended",
                           !.winner = currentPlayer.name,
                           !.scores = [x \in DOMAIN room.scores \cup {currentPlayer.id} |->
                                          IF x = currentPlayer.id THEN score + 1
                                          ELSE room.scores[x]]]
    ELSE [room EXCEPT !.board = board,
                      !.currentPlayerIndex = 1 - room.currentPlayerIndex]

\* the Map after a make-move
MakeMoveRooms(s, roomId, index) ==
    IF MoveAccepted(s, roomId, index)
    THEN [rooms EXCEPT ![ToUpperCase(roomId)] = ApplyMove(@, index)]
    ELSE rooms

\* the messages a make-move emits
MakeMoveOut(s, roomId, index) ==
    LET key == ToUpperCase(roomId) IN
    IF MoveAccepted(s, roomId, index)
    THEN { RoomUpdatedMsg(channels[key], MakeMoveRooms(s, roomId, index)[key]) }
    ELSE {}

\* socket.on("make-move")
MakeMove(s, roomId, index) ==
    /\ sockets[s] = "live"
    /\ rooms' = MakeMoveRooms(s, roomId, index)
    /\ out' = MakeMoveOut(s, roomId, index)
    /\ UNCHANGED <<sockets, channels, cwBoard, cwResult>>

SeqHas(seq, x) == \E i \in DOMAIN seq : seq[i] = x

\* variant: the reset leaves the board of the concluded game
VoteResetKeepBoard(room, s) ==
    LET votes == IF SeqHas(room.resetVotes, s) THEN room.resetVotes
                 ELSE Append(room.resetVotes, s)
    IN
    IF Len(votes) >= Len(room.players)
    THEN [room EXCEPT !.status = "playing", !.currentPlayerIndex = 0,
                      !.winner = Null, !.resetVotes = <<>>]
    ELSE [room EXCEPT !.resetVotes = votes]

\* variant: the reset leaves the turn where it was
VoteResetKeepTurn(room, s) ==
    LET votes == IF SeqHas(room.resetVotes, s) THEN room.resetVotes
                 ELSE Append(room.resetVotes, s)
    IN
    IF Len(votes) >= Len(room.players)
    THEN [room EXCEPT !.board = EmptyBoard, !.status = "playing",
                      !.winner = Null, !.resetVotes = <<>>]
    ELSE [room EXCEPT !.resetVotes = votes]

\* the Room after a reset-game of socket s
VoteReset(room, s) ==
    LET votes == IF SeqHas(room.resetVotes, s) THEN room.resetVotes
                 ELSE Append(room.resetVotes, s)
    IN
    IF Len(votes) >= Len(room.players)
    THEN [room EXCEPT !.board = EmptyBoard, !.status = "playing",
                      !.currentPlayerIndex = 0, !.winner = Null,
                      !.resetVotes = <<>>]
    ELSE [room EXCEPT !.resetVotes = votes]

\* the Map after a reset-game
ResetGameRooms(s, roomId) ==
    IF ToUpperCase(roomId) \notin DOMAIN rooms THEN rooms
    ELSE [rooms EXCEPT ![ToUpperCase(roomId)] = VoteReset(@, s)]

\* the messages a reset-game emits
ResetGameOut(s, roomId) ==
    LET key == ToUpperCase(roomId) IN
    IF key \notin DOMAIN rooms THEN {}
    ELSE { RoomUpdatedMsg(channels[key], ResetGameRooms(s, roomId)[key]) }

\* socket.on("reset-game")
ResetGame(s, roomId) ==
    /\ sockets[s] = "live"
    /\ rooms' = ResetGameRooms(s, roomId)
    /\ out' = ResetGameOut(s, roomId)
    /\ UNCHANGED <<sockets, channels, cwBoard, cwResult>>

\* players.findIndex(p => p.id === s), 1-based; 0 when there is none
FindIndex(players, s) ==
    IF \E i \in DOMAIN players : players[i].id = s
    THEN CHOOSE i \in DOMAIN players :
            /\ players[i].id = s
            /\ \A j \in DOMAIN players : players[j].id = s => i <= j
    ELSE 0

\* players.splice(i, 1)
Splice(players, i) ==
    [j \in 1..(Len(players) - 1) |-> IF j < i THEN players[j] ELSE players[j + 1]]

\* variant: the board of the game that was under way is kept
DepartKeepBoard(room, s) ==
    [room EXCEPT !.players = Splice(room.players, FindIndex(room.players, s)),
                 !.status = "waiting", !.winner = Null]

\* variant: the winner of the game that was under way is kept
DepartKeepWinner(room, s) ==
    [room EXCEPT !.players = Splice(room.players, FindIndex(room.players, s)),
                 !.status = "waiting", !.board = EmptyBoard]

\* the Room after one of its players left and another one stays
Depart(room, s) ==
    [room EXCEPT !.players = Splice(room.players, FindIndex(room.players, s)),
                 !.status = "waiting", !.board = EmptyBoard, !.winner = Null]

\* the rooms that list socket s as a player
RoomsOf(s) == { k \in DOMAIN rooms : FindIndex(rooms[k].players, s) # 0 }

\* variant: every room that lists the socket is deleted
DisconnectRoomsDropAll(s) ==
    [k \in { x \in DOMAIN rooms : x \notin RoomsOf(s) } |-> rooms[k]]

\* the Map after a disconnect: every room that lists the socket loses its
\* first entry for it, and is deleted if that was its only player
DisconnectRooms(s) ==
    [k \in { x \in DOMAIN rooms : x \notin RoomsOf(s) \/ Len(rooms[x].players) > 1 } |->
        IF k \in RoomsOf(s) THEN Depart(rooms[k], s) ELSE rooms[k]]

\* the channels after a disconnect: the socket has left them all
DisconnectChannels(s) == [k \in Keys |-> channels[k] \ {s}]

\* the messages a disconnect emits (the socket has left its channels by then)
DisconnectOut(s) ==
    LET after == DisconnectRooms(s) IN
    { RoomUpdatedMsg(channels[k] \ {s}, after[k]) : k \in RoomsOf(s) \cap DOMAIN after }
        \cup { RoomListMsg(LiveSockets \ {s}, after) }

\* socket.on("disconnect")
Disconnect(s) ==
    /\ sockets[s] = "live"
    /\ sockets' = [sockets EXCEPT ![s] = "closed"]
    /\ rooms' = DisconnectRooms(s)
    /\ channels' = DisconnectChannels(s)
    /\ out' = DisconnectOut(s)
    /\ UNCHANGED <<cwBoard, cwResult>>

-----------------------------------------------------------------------------
(* The specification: every event any live socket can send *)

ScoresBounded(rs) ==
    \A k \in DOMAIN rs : \A x \in DOMAIN rs[k].scores : rs[k].scores[x] <= MaxScore

\* The cell sequences the clients play from: a win of the first mover on the
\* top row, a win of the second mover on the middle row, a draw, a win of
\* the second mover on the top row.
Games ==
    << <<0, 3, 1, 4, 2>>,
       <<0, 3, 1, 4, 8, 5>>,
       <<0, 3, 1, 4, 5, 2, 6, 8, 7>>,
       <<4, 0, 8, 2, 6, 1>> >>

Filled(board) == { i \in Cells : board[i] # Null }

\* the cells that continue one of the first n games on this board
NextCells(board, n) ==
    LET m == Cardinality(Filled(board)) IN
    { Games[g][m + 1] : g \in { h \in 1..n : /\ h <= Len(Games)
                                               /\ m < Len(Games[h])
                                               /\ Filled(board) = { Games[h][j] : j \in 1..m } } }

\* the indices the clients send for a room: out of range, occupied, and the
\* cells that continue a game
MoveChoices(roomId, n) ==
    LET key == ToUpperCase(roomId) IN
    IF key \in DOMAIN rooms
    THEN {-1, 9} \cup Filled(rooms[key].board) \cup NextCells(rooms[key].board, n)
    ELSE {0}

NextWith(createNames, names, privs, cpws, jpws, links, n) ==
    \E s \in Ids :
        \/ Connect(s)
        \/ \E r \in createNames, priv \in privs, pw \in cpws :
              CreateRoom(s, r, NameOf(s), priv, pw)
        \/ \E r \in names, pw \in jpws, link \in links :
              JoinRoom(s, r, NameOf(s), pw, link)
        \/ \E r \in names : \E i \in MoveChoices(r, n) :
              MakeMove(s, r, i) /\ ScoresBounded(rooms')
        \/ \E r \in names : ResetGame(s, r)
        \/ Disconnect(s)

\* one public room, all games
Next ==
    NextWith(RoomNames, JoinNames,
             {FALSE}, {Undefined}, {Undefined}, {FALSE}, NumGames)

Spec == Init /\ [][Next]_vars

\* the lobby: one room name and a name no room has, private rooms and
\* passwords, link joins
LobbyNext ==
    NextWith(RoomNames, JoinNames \cup GhostNames,
             BOOLEAN, CreatePasswords, JoinPasswords, BOOLEAN, LobbyGames)

LobbySpec == Init /\ [][LobbyNext]_vars

\* a board of any content is handed to checkWinner
CwInit ==
    /\ sockets = [s \in Ids |-> "unborn"]
    /\ rooms = EmptyMap
    /\ channels = [k \in Keys |-> {}]
    /\ out = {}
    /\ cwBoard \in [Cells -> {Null, "X", "O"}]
    /\ cwResult = Pending

CallCheckWinner ==
    /\ cwResult = Pending
    /\ cwResult' = checkWinner(cwBoard)
    /\ UNCHANGED <<sockets, rooms, channels, out, cwBoard>>

CwNext == CallCheckWinner

CwSpec == CwInit /\ [][CwNext]_vars

-----------------------------------------------------------------------------
(* What the claims speak of *)

\* every room name a client may send
InputNames == RoomNames \cup JoinNames \cup GhostNames

MemberIds(room) == { room.players[i].id : i \in DOMAIN room.players }

\* the three rows, the three columns and the two diagonals, as sets of cells
Rows == { { 3 * r, 3 * r + 1, 3 * r + 2 } : r \in 0..2 }
Columns == { { c, c + 3, c + 6 } : c \in 0..2 }
Diagonals == { { 0, 4, 8 }, { 2, 4, 6 } }
WinLines == Rows \cup Columns \cup Diagonals

\* the symbols that hold a whole line of the board
LineSymbols(board) ==
    { sym \in {"X", "O"} : \E l \in WinLines : \A i \in l : board[i] = sym }

BoardFull(board) == \A i \in Cells : board[i] # Null

Range(seq) == { seq[i] : i \in DOMAIN seq }

-----------------------------------------------------------------------------
(* Claims.  A claim about what a handler does is stated over every event a  *)
(* live socket can send in a reachable state: the handler's Rooms and Out give  *)
(* the store and the messages the event leaves behind.                      *)

RoomFull(r) ==
    /\ ToUpperCase(r) \in DOMAIN rooms
    /\ Len(rooms[ToUpperCase(r)].players) >= 2

\* C1: no stored room ever has more than 2 players, and a join-room aimed at
\* a room that already has 2 players sends "Room is full" to the requester
\* only and leaves the store as it was.
C1_AtMostTwoPlayers ==
    /\ \A k \in DOMAIN rooms : Len(rooms[k].players) <= 2
    /\ \A s \in LiveSockets, r \in InputNames, pw \in JoinPasswords, link \in BOOLEAN :
          RoomFull(r) =>
             /\ JoinRoomOut(s, r, NameOf(s), pw, link) = { ErrorMsg(s, "Room is full") }
             /\ JoinRoomRooms(s, r, NameOf(s), pw, link) = rooms

\* a third socket has just been refused by a room of two players
C1_Witness ==
    \E k \in DOMAIN rooms, s \in Ids :
        /\ Len(rooms[k].players) = 2
        /\ s \notin MemberIds(rooms[k])
        /\ out = { ErrorMsg(s, "Room is full") }

\* the password of a join-room is missing
Missing(pw) == pw \in { Undefined, "" }

\* C2: a join-room with isLinkJoin false to a private room, whose password is
\* missing or differs from the room's, leaves the membership unchanged and is
\* answered with an authentication error, whatever the member count.
C2_WrongPasswordRefused ==
    \A s \in LiveSockets, r \in InputNames, pw \in JoinPasswords :
        LET key == ToUpperCase(r) IN
        ( /\ key \in DOMAIN rooms
          /\ rooms[key].isPrivate
          /\ (Missing(pw) \/ pw # rooms[key].password) )
           => /\ JoinRoomRooms(s, r, NameOf(s), pw, FALSE)[key].players
                     = rooms[key].players
              /\ JoinRoomOut(s, r, NameOf(s), pw, FALSE)
                     \in { { ErrorMsg(s, "Incorrect password") },
                           { ErrorMsg(s, "Password required") } }

\* every cell that holds a symbol on board b holds the same on board a
KeepsCells(b, a) == \A i \in Cells : b[i] # Null => a[i] = b[i]

\* C3: within one game a board cell is write-once: no make-move changes a
\* cell that holds a symbol, and the cell keeps its value until the board is
\* cleared by a reset-game or by a disconnect (which may remove the room).
C3_CellWriteOnce ==
    \A s \in LiveSockets, k \in DOMAIN rooms :
        /\ \A r \in InputNames, idx \in Indices :
              KeepsCells(rooms[k].board, MakeMoveRooms(s, r, idx)[k].board)
        /\ \A r \in InputNames :
              /\ KeepsCells(rooms[k].board,
                            JoinRoomRooms(s, r, NameOf(s), Undefined, TRUE)[k].board)
              /\ KeepsCells(rooms[k].board,
                            CreateRoomRooms(s, r, NameOf(s), FALSE, Undefined)[k].board)
              /\ LET after == ResetGameRooms(s, r)[k].board IN
                    KeepsCells(rooms[k].board, after) \/ after = EmptyBoard
        /\ LET after == DisconnectRooms(s) IN
              \/ k \notin DOMAIN after
              \/ KeepsCells(rooms[k].board, after[k].board)
              \/ after[k].board = EmptyBoard

\* a make-move has just been ignored in a game in which two cells are taken
C3_Witness ==
    \E k \in DOMAIN rooms :
        /\ rooms[k].status = "playing"
        /\ Cardinality(Filled(rooms[k].board)) >= 2
        /\ out = {}

\* the conditions under which a make-move may be applied, as C5 lists them
MoveApplicable(s, r, idx) ==
    LET key == ToUpperCase(r) IN
    /\ key \in DOMAIN rooms
    /\ rooms[key].status = "playing"
    /\ rooms[key].currentPlayerIndex + 1 \in DOMAIN rooms[key].players
    /\ rooms[key].players[rooms[key].currentPlayerIndex + 1].id = s
    /\ idx \in Cells
    /\ rooms[key].board[idx] = Null

\* C4: in a room with status playing, an accepted move that leaves the game
\* in progress switches currentPlayerIndex to the other of the two member
\* indices 0 and 1; a rejected move never changes currentPlayerIndex.
C4_TurnAlternates ==
    \A s \in LiveSockets, r \in InputNames, idx \in Indices :
        LET key == ToUpperCase(r) IN
        (key \in DOMAIN rooms /\ rooms[key].status = "playing") =>
            LET room == rooms[key]
                after == MakeMoveRooms(s, r, idx)[key]
            IN
            IF after.board # room.board
            THEN after.status = "playing" =>
                    /\ after.currentPlayerIndex = 1 - room.currentPlayerIndex
                    /\ Len(after.players) = 2
                    /\ after.currentPlayerIndex + 1 \in DOMAIN after.players
            ELSE after.currentPlayerIndex = room.currentPlayerIndex

\* C5: a make-move is applied only if the room exists, its status is playing,
\* the sender is the player at currentPlayerIndex, the index is in 0..8 and
\* the cell is empty; otherwise the store is unchanged and nothing is emitted.
C5_MoveFrame ==
    \A s \in LiveSockets, r \in InputNames, idx \in Indices :
        ~MoveApplicable(s, r, idx) =>
            MakeMoveRooms(s, r, idx) = rooms /\ MakeMoveOut(s, r, idx) = {}

\* a make-move has just been ignored in a game in progress
C5_Witness ==
    \E k \in DOMAIN rooms :
        /\ rooms[k].status = "playing"
        /\ Len(rooms[k].players) = 2
        /\ Filled(rooms[k].board) # {}
        /\ out = {}

\* C6: checkWinner returns the symbol of a completed line if one of the 8
\* lines holds three equal symbols, else the draw marker if the board is
\* full, else null; a full board with a completed line is a win.
C6_CheckWinner ==
    cwResult # Pending =>
        IF LineSymbols(cwBoard) # {} THEN cwResult \in LineSymbols(cwBoard)
        ELSE IF BoardFull(cwBoard) THEN cwResult = Draw
        ELSE cwResult = Null

\* checkWinner was called on a full board with a completed line and named a winner
C6_Witness ==
    /\ BoardFull(cwBoard)
    /\ LineSymbols(cwBoard) # {}
    /\ cwResult \in {"X", "O"}

\* C7: an accepted move that completes a line sets status ended, winner to
\* the mover's display name and adds exactly 1 to the mover's score; one
\* that fills the board without a line sets status ended and winner to the
\* draw marker and changes no score.
C7_TerminalMove ==
    \A s \in LiveSockets, r \in InputNames, idx \in Cells :
        MoveApplicable(s, r, idx) =>
            LET key == ToUpperCase(r)
                room == rooms[key]
                mover == room.players[room.currentPlayerIndex + 1]
                after == MakeMoveRooms(s, r, idx)[key]
            IN
            /\ LineSymbols(after.board) # {} =>
                  /\ after.status = "ended"
                  /\ after.winner = mover.name
                  /\ DOMAIN after.scores = DOMAIN room.scores
                  /\ \A x \in DOMAIN room.scores :
                        after.scores[x] = room.scores[x] + (IF x = mover.id THEN 1 ELSE 0)
            /\ (LineSymbols(after.board) = {} /\ BoardFull(after.board)) =>
                  /\ after.status = "ended"
                  /\ after.winner = Draw
                  /\ after.scores = room.scores

\* a game has just ended in a draw in a room where a game was won before
C7_Witness ==
    \E k \in DOMAIN rooms :
        /\ rooms[k].status = "ended"
        /\ rooms[k].winner = Draw
        /\ BoardFull(rooms[k].board)
        /\ \E x \in DOMAIN rooms[k].scores : rooms[k].scores[x] = 1
        /\ out = { RoomUpdatedMsg(channels[k], rooms[k]) }

\* C8: in a room with 2 members and status ended, a reset-game leaves status
\* and board as they are unless it is the vote of a member and the other
\* member has voted: only the second distinct member's vote resets the game.
C8_UnanimousRematch ==
    \A s \in LiveSockets, r \in InputNames :
        LET key == ToUpperCase(r) IN
        ( /\ key \in DOMAIN rooms
          /\ Len(rooms[key].players) = 2
          /\ Cardinality(MemberIds(rooms[key])) = 2
          /\ rooms[key].status = "ended" )
           => LET room == rooms[key]
                  after == ResetGameRooms(s, r)[key]
              IN
              (after.status # "ended" \/ after.board # room.board) =>
                  /\ s \in MemberIds(room)
                  /\ \E m \in MemberIds(room) \ {s} : m \in Range(room.resetVotes)

\* C9: when a reset-game makes the number of votes reach the number of
\* members, the same step clears the board, sets status playing and
\* currentPlayerIndex 0, clears winner and resetVotes, leaves players and
\* scores alone, and emits one room-updated that shows the reset room.
C9_ResetAtomic ==
    \A s \in LiveSockets, r \in InputNames :
        LET key == ToUpperCase(r) IN
        ( /\ key \in DOMAIN rooms
          /\ Cardinality(Range(rooms[key].resetVotes) \cup {s}) >= Len(rooms[key].players) )
           => LET after == ResetGameRooms(s, r) IN
              /\ after = [rooms EXCEPT ![key] =
                                  [@ EXCEPT !.board = EmptyBoard, !.status = "playing",
                                            !.currentPlayerIndex = 0, !.winner = Null,
                                            !.resetVotes = <<>>]]
              /\ ResetGameOut(s, r) = { RoomUpdatedMsg(channels[key], after[key]) }

\* the votes of a concluded game have just reset it: the room plays on an
\* empty board with no votes, a score is kept, one room-updated shows it
C9_Witness ==
    \E k \in DOMAIN rooms :
        /\ rooms[k].status = "playing"
        /\ Len(rooms[k].players) = 2
        /\ rooms[k].board = EmptyBoard
        /\ rooms[k].currentPlayerIndex = 0
        /\ rooms[k].resetVotes = <<>>
        /\ \E x \in DOMAIN rooms[k].scores : rooms[k].scores[x] = 1
        /\ out = { RoomUpdatedMsg(channels[k], rooms[k]) }

\* C10: a reset-game of a socket that is not a member of the room does not
\* add it to resetVotes and changes neither board, status, turn nor winner.
C10_NonMemberVoteIgnored ==
    \A s \in LiveSockets, r \in InputNames :
        LET key == ToUpperCase(r) IN
        (key \in DOMAIN rooms /\ s \notin MemberIds(rooms[key])) =>
            LET room == rooms[key]
                after == ResetGameRooms(s, r)[key]
            IN
            /\ after.resetVotes = room.resetVotes
            /\ after.board = room.board
            /\ after.status = room.status
            /\ after.currentPlayerIndex = room.currentPlayerIndex
            /\ after.winner = room.winner

\* C11: a room's resetVotes is empty unless the room's status is ended: votes
\* cast while waiting or playing are not recorded, and votes do not survive
\* a departure or a reset.
C11_VotesOnlyWhenEnded ==
    \A k \in DOMAIN rooms :
        rooms[k].resetVotes # <<>> => rooms[k].status = "ended"

\* the sockets that are the only connection listed in room k
SoleConnections(k) == { s \in LiveSockets : MemberIds(rooms[k]) = {s} }

\* C12: no stored room has zero players, and when the last connection that is
\* a member of a room disconnects the room leaves the store in that step, so
\* that a join-room for its name is answered "Room ID not found".
C12_EmptyRoomDestroyed ==
    /\ \A k \in DOMAIN rooms : Len(rooms[k].players) >= 1
    /\ \A k \in DOMAIN rooms : \A s \in SoleConnections(k) :
          k \notin DOMAIN DisconnectRooms(s)
    /\ \A s \in LiveSockets, r \in InputNames, pw \in JoinPasswords, link \in BOOLEAN :
          ToUpperCase(r) \notin DOMAIN rooms =>
             /\ JoinRoomOut(s, r, NameOf(s), pw, link) = { ErrorMsg(s, "Room ID not found") }
             /\ JoinRoomRooms(s, r, NameOf(s), pw, link) = rooms

\* C13: when one of the two members of a room disconnects, whatever the
\* room's status, the room stays in the store with the other member as its
\* only player, status waiting, an empty board and no winner, and the
\* remaining member is sent a room-updated that shows this room.
C13_DepartureOfOne ==
    \A s \in LiveSockets, k \in DOMAIN rooms :
        ( /\ Len(rooms[k].players) = 2
          /\ s \in MemberIds(rooms[k])
          /\ Cardinality(MemberIds(rooms[k])) = 2 )
           => LET room == rooms[k]
                  after == DisconnectRooms(s)
                  stays == CHOOSE i \in DOMAIN room.players : room.players[i].id # s
              IN
              /\ k \in DOMAIN after
              /\ after[k].players = << room.players[stays] >>
              /\ after[k].status = "waiting"
              /\ after[k].board = EmptyBoard
              /\ after[k].winner = Null
              /\ \E m \in DisconnectOut(s) :
                    /\ m.ev = "room-updated"
                    /\ m.room = << after[k] >>
                    /\ room.players[stays].id \in m.to

\* C14: in every room the members hold pairwise different symbols, the first
\* member X and a second member O, also after a member has departed and a
\* new player has been admitted.
C14_DistinctSymbols ==
    \A k \in DOMAIN rooms :
        LET players == rooms[k].players IN
        /\ \A i, j \in DOMAIN players : i # j => players[i].symbol # players[j].symbol
        /\ 1 \in DOMAIN players => players[1].symbol = "X"
        /\ 2 \in DOMAIN players => players[2].symbol = "O"

\* the room snapshots carried by the messages of the last handler
Snapshots == { m.room[1] : m \in { x \in out : x.room # <<>> } }

\* C15: no room snapshot (the payload of a room-created or a room-updated)
\* contains the room's password, for public and for private rooms.
C15_NoPasswordInSnapshot ==
    \A room \in Snapshots : room.password = Undefined

\* C16: a stored room has a password if and only if it is private: a public
\* room stores none, and a room created private always has one.
C16_PasswordIffPrivate ==
    \A k \in DOMAIN rooms :
        rooms[k].isPrivate <=> ~Missing(rooms[k].password)

\* C17: the name of every stored room, as snapshots and the room list carry
\* it, is the room's canonical uppercase key, whatever casing the
\* create-room used.
C17_NameIsCanonical ==
    /\ \A k \in DOMAIN rooms : rooms[k].name = k
    /\ { e.name : e \in getRoomList } = DOMAIN rooms

\* C18: there is at most one room per canonical name: a create-room whose
\* canonical name is in the store sends "Room ID already exists" to the
\* requester only and leaves the store as it is; one whose canonical name is
\* not in the store puts it there, so of two requests for one canonical name
\* exactly the first succeeds.
C18_OneRoomPerName ==
    /\ \A k \in DOMAIN rooms : ToUpperCase(k) = k
    /\ \A s \in LiveSockets, r \in InputNames, priv \in BOOLEAN, pw \in CreatePasswords :
          LET key == ToUpperCase(r)
              after == CreateRoomRooms(s, r, NameOf(s), priv, pw)
          IN
          IF key \in DOMAIN rooms
          THEN /\ after = rooms
               /\ CreateRoomChannels(s, r) = channels
               /\ CreateRoomOut(s, r, NameOf(s), priv, pw)
                     = { ErrorMsg(s, "Room ID already exists") }
          ELSE /\ DOMAIN after = DOMAIN rooms \cup {key}
               /\ \A k \in DOMAIN rooms : after[k] = rooms[k]
               /\ \A m \in CreateRoomOut(s, r, NameOf(s), priv, pw) : m.ev # "error"

\* a create-room for the name of a room in which a game is under way has
\* just been refused
C18_Witness ==
    \E k \in DOMAIN rooms, s \in Ids :
        /\ Filled(rooms[k].board) # {}
        /\ out = { ErrorMsg(s, "Room ID already exists") }

\* C19: a successful create-room stores a room whose only player is the
\* creator with symbol X, with status waiting, an empty board,
\* currentPlayerIndex 0, no winner, scores of the creator alone at 0 and no
\* reset votes, and sends one room-created, to the creator only.
C19_CreatedRoom ==
    \A s \in LiveSockets, r \in InputNames, priv \in BOOLEAN, pw \in CreatePasswords :
        LET key == ToUpperCase(r) IN
        key \notin DOMAIN rooms =>
            LET room == CreateRoomRooms(s, r, NameOf(s), priv, pw)[key]
                created == { m \in CreateRoomOut(s, r, NameOf(s), priv, pw) :
                                m.ev = "room-created" }
            IN
            /\ Len(room.players) = 1
            /\ room.players[1].id = s
            /\ room.players[1].name = NameOf(s)
            /\ room.players[1].symbol = "X"
            /\ room.status = "waiting"
            /\ room.board = EmptyBoard
            /\ room.currentPlayerIndex = 0
            /\ room.winner = Null
            /\ DOMAIN room.scores = {s}
            /\ room.scores[s] = 0
            /\ room.resetVotes = <<>>
            /\ Cardinality(created) = 1
            /\ \A m \in created : m.to = {s} /\ m.room = << room >>

\* a room has just been created while another connection is open: the
\* room-created goes to the creator, the room list to both
C19_Witness ==
    \E k \in DOMAIN rooms, s \in LiveSockets :
        /\ LiveSockets # {s}
        /\ RoomCreatedMsg(s, rooms[k]) \in out
        /\ RoomListMsg(LiveSockets, rooms) \in out

\* C20: a join-room with isLinkJoin false to a private room is answered
\* "Password required" when it supplies no or an empty password and
\* "Incorrect password" when it supplies a non-empty wrong one.
C20_PasswordRequired ==
    \A s \in LiveSockets, r \in InputNames, pw \in JoinPasswords :
        LET key == ToUpperCase(r) IN
        ( /\ key \in DOMAIN rooms
          /\ rooms[key].isPrivate
          /\ ~Missing(rooms[key].password)
          /\ Len(rooms[key].players) < 2
          /\ pw # rooms[key].password )
           => JoinRoomOut(s, r, NameOf(s), pw, FALSE)
                 = { ErrorMsg(s, IF Missing(pw) THEN "Password required"
                                 ELSE "Incorrect password") }

\* C21: a join-room to a room with fewer than 2 players is admitted if it is
\* a link join, or the room is public, or the password is the room's: the
\* sender becomes the last player and joins the channel, and no error is sent.
C21_Admitted ==
    \A s \in LiveSockets, r \in InputNames, pw \in JoinPasswords, link \in BOOLEAN :
        LET key == ToUpperCase(r) IN
        ( /\ key \in DOMAIN rooms
          /\ Len(rooms[key].players) < 2
          /\ (link \/ ~rooms[key].isPrivate \/ pw = rooms[key].password) )
           => LET after == JoinRoomRooms(s, r, NameOf(s), pw, link)[key] IN
              /\ Len(after.players) = Len(rooms[key].players) + 1
              /\ after.players[Len(after.players)].id = s
              /\ \A i \in DOMAIN rooms[key].players :
                    after.players[i] = rooms[key].players[i]
              /\ s \in JoinRoomChannels(s, r, pw, link)[key]
              /\ \A m \in JoinRoomOut(s, r, NameOf(s), pw, link) : m.ev # "error"

\* a second connection has just been admitted to a private room that has a
\* password
C21_Witness ==
    \E k \in DOMAIN rooms :
        /\ rooms[k].isPrivate
        /\ rooms[k].password = "pw"
        /\ Cardinality(MemberIds(rooms[k])) = 2
        /\ RoomUpdatedMsg(channels[k], rooms[k]) \in out
        /\ RoomListMsg(LiveSockets, rooms) \in out

\* a handler that leaves the store as rs and emits msgs has broadcast the
\* new room list if it changed the room list
ListBroadcast(rs, msgs, to) ==
    RoomListOf(rs) # RoomListOf(rooms) => RoomListMsg(to, rs) \in msgs

\* C22: every step that changes the set of rooms, a room's member count or a
\* room's status broadcasts in that step a room-list equal to the new list
\* to all connections.
C22_RoomListBroadcast ==
    \A s \in LiveSockets :
        /\ ListBroadcast(DisconnectRooms(s), DisconnectOut(s), LiveSockets \ {s})
        /\ \A r \in InputNames :
              /\ ListBroadcast(CreateRoomRooms(s, r, NameOf(s), FALSE, Undefined),
                               CreateRoomOut(s, r, NameOf(s), FALSE, Undefined),
                               LiveSockets)
              /\ ListBroadcast(JoinRoomRooms(s, r, NameOf(s), Undefined, TRUE),
                               JoinRoomOut(s, r, NameOf(s), Undefined, TRUE),
                               LiveSockets)
              /\ ListBroadcast(ResetGameRooms(s, r), ResetGameOut(s, r), LiveSockets)
              /\ \A idx \in Indices :
                    ListBroadcast(MakeMoveRooms(s, r, idx), MakeMoveOut(s, r, idx),
                                  LiveSockets)

\* C23: after a connection disconnects, no stored room lists it as a player,
\* in any room it had created or joined, and a room-list is broadcast also
\* when the connection was in no room.
C23_DisconnectRemoves ==
    \A s \in LiveSockets :
        /\ \A k \in DOMAIN DisconnectRooms(s) :
              s \notin MemberIds(DisconnectRooms(s)[k])
        /\ RoomListMsg(LiveSockets \ {s}, DisconnectRooms(s)) \in DisconnectOut(s)

\* the messages of event ev among msgs
Of(ev, msgs) == { m \in msgs : m.ev = ev }

\* the messages msgs of a request of socket s are delivered as C24 says
Delivered(s, msgs) ==
    /\ \A m \in Of("error", msgs) \cup Of("room-created", msgs) : m.to = {s}
    /\ \A m \in Of("room-updated", msgs) : m.to = MemberIds(m.room[1])

\* C24: every room-updated goes to all current members of its room and to no
\* other connection; every room-created and every error goes to the
\* requesting connection only.
C24_Recipients ==
    \A s \in LiveSockets :
        /\ Delivered(s, DisconnectOut(s))
        /\ \A r \in InputNames :
              /\ Delivered(s, CreateRoomOut(s, r, NameOf(s), FALSE, Undefined))
              /\ Delivered(s, JoinRoomOut(s, r, NameOf(s), Undefined, TRUE))
              /\ Delivered(s, ResetGameOut(s, r))
              /\ \A idx \in Indices : Delivered(s, MakeMoveOut(s, r, idx))

\* map b has every entry of map a, with the same value
Extends(a, b) ==
    /\ DOMAIN a \subseteq DOMAIN b
    /\ \A x \in DOMAIN a : b[x] = a[x]

\* C25: the scores of a room change only by a successful join, which adds
\* the joiner's entry with value 0 and changes no existing entry, and by a
\* winning move, which adds exactly 1 to the mover's entry; a draw, a reset
\* vote, a reset and a departure leave every entry as it is.
C25_ScoresFrame ==
    \A s \in LiveSockets, k \in DOMAIN rooms :
        LET scores == rooms[k].scores IN
        /\ \A r \in InputNames :
              /\ CreateRoomRooms(s, r, NameOf(s), FALSE, Undefined)[k].scores = scores
              /\ ResetGameRooms(s, r)[k].scores = scores
              /\ LET after == JoinRoomRooms(s, r, NameOf(s), Undefined, TRUE)[k].scores IN
                    /\ Extends(scores, after)
                    /\ DOMAIN after \subseteq DOMAIN scores \cup {s}
                    /\ s \in DOMAIN after \ DOMAIN scores => after[s] = 0
              /\ \A idx \in Indices :
                    LET room == MakeMoveRooms(s, r, idx)[k]
                        won == /\ room.board # rooms[k].board
                               /\ LineSymbols(room.board) # {}
                    IN
                    /\ DOMAIN room.scores = DOMAIN scores
                    /\ \A x \in DOMAIN scores :
                          room.scores[x] = scores[x] + (IF won /\ x = s THEN 1 ELSE 0)
        /\ k \in DOMAIN DisconnectRooms(s) => DisconnectRooms(s)[k].scores = scores

\* the board with X on the cells xs and O on the cells os
BoardOf(xs, os) ==
    [i \in Cells |-> IF i \in xs THEN "X" ELSE IF i \in os THEN "O" ELSE Null]

Alice == [id |-> 1, name |-> "Alice", symbol |-> "X"]
Bob == [id |-> 2, name |-> "Bob", symbol |-> "O"]

\* the store that holds the public room of Alice and Bob alone
TraceStore(players, board, status, turn, winner, scores, votes) ==
    [k \in { ToUpperCase(<<"a", "b">>) } |->
        [ name |-> <<"a", "b">>, players |-> players, board |-> board,
          currentPlayerIndex |-> turn, isPrivate |-> FALSE, password |-> Undefined,
          status |-> status, winner |-> winner, scores |-> scores,
          resetVotes |-> votes ]]

\* the stores the trace of C26 goes through after Bob has joined
Playing(xs, os, turn) ==
    TraceStore(<<Alice, Bob>>, BoardOf(xs, os), "playing", turn, Null, <<0, 0>>, <<>>)

\* the store after Alice's winning move, with the votes cast since
Won(votes) ==
    TraceStore(<<Alice, Bob>>, BoardOf({0, 1, 2}, {3, 4}), "ended", 0, "Alice",
               <<1, 0>>, votes)

\* the store after the rematch reset
Rematch ==
    TraceStore(<<Alice, Bob>>, EmptyBoard, "playing", 0, Null, <<1, 0>>, <<>>)

\* C26: Alice creates a public room, here the room ab (empty board, status
\* waiting); Bob joins
\* (status playing, Alice X and Bob O); the moves Alice 0, Bob 3, Alice 1,
\* Bob 4, Alice 2 are accepted and the last one sets status ended, winner
\* "Alice", scores Alice 1 and Bob 0; after the reset votes of both the board
\* is empty, status playing, currentPlayerIndex 0 and Alice's score still 1.
C26_EndToEnd ==
    {1, 2} \subseteq LiveSockets =>
        /\ rooms = EmptyMap =>
              CreateRoomRooms(1, <<"a", "b">>, "Alice", FALSE, Undefined)
                 = TraceStore(<<Alice>>, EmptyBoard, "waiting", 0, Null, <<0>>, <<>>)
        /\ rooms = TraceStore(<<Alice>>, EmptyBoard, "waiting", 0, Null, <<0>>, <<>>) =>
              JoinRoomRooms(2, <<"A", "b">>, "Bob", Undefined, FALSE) = Playing({}, {}, 0)
        /\ rooms = Playing({}, {}, 0) =>
              MakeMoveRooms(1, <<"A", "b">>, 0) = Playing({0}, {}, 1)
        /\ rooms = Playing({0}, {}, 1) =>
              MakeMoveRooms(2, <<"A", "b">>, 3) = Playing({0}, {3}, 0)
        /\ rooms = Playing({0}, {3}, 0) =>
              MakeMoveRooms(1, <<"A", "b">>, 1) = Playing({0, 1}, {3}, 1)
        /\ rooms = Playing({0, 1}, {3}, 1) =>
              MakeMoveRooms(2, <<"A", "b">>, 4) = Playing({0, 1}, {3, 4}, 0)
        /\ rooms = Playing({0, 1}, {3, 4}, 0) =>
              MakeMoveRooms(1, <<"A", "b">>, 2) = Won(<<>>)
        /\ rooms = Won(<<>>) =>
              /\ ResetGameRooms(1, <<"A", "b">>) = Won(<<1>>)
              /\ ResetGameRooms(2, <<"A", "b">>) = Won(<<2>>)
        /\ rooms = Won(<<1>>) => ResetGameRooms(2, <<"A", "b">>) = Rematch
        /\ rooms = Won(<<2>>) => ResetGameRooms(1, <<"A", "b">>) = Rematch

\* the trace has just ended: the second vote has reset the room Alice won in
C26_Witness ==
    /\ rooms = Rematch
    /\ {1, 2} \subseteq LiveSockets
    /\ out = { RoomUpdatedMsg({1, 2}, Rematch[ToUpperCase(<<"a", "b">>)]) }

\* C27: after a disconnect that leaves one member in a room, the room's
\* currentPlayerIndex is 0, so that the first move of the next game belongs
\* to the member who stayed.
C27_TurnResetOnDeparture ==
    \A s \in LiveSockets : \A k \in RoomsOf(s) \cap DOMAIN DisconnectRooms(s) :
        LET after == DisconnectRooms(s)[k] IN
        Len(after.players) = 1 => after.currentPlayerIndex = 0

\* C28: a room whose status is playing has exactly two members; a reset-game
\* of the sole member of a waiting room does not set status playing.
C28_PlayingHasTwo ==
    \A k \in DOMAIN rooms :
        rooms[k].status = "playing" => Len(rooms[k].players) = 2

\* C29: whenever a room's status is playing, currentPlayerIndex is the index
\* of an existing member.
C29_TurnIsMember ==
    \A k \in DOMAIN rooms :
        rooms[k].status = "playing" =>
            /\ 0 <= rooms[k].currentPlayerIndex
            /\ rooms[k].currentPlayerIndex < Len(rooms[k].players)

Pairs == { k \in DOMAIN rooms : /\ Len(rooms[k].players) = 2
                                /\ Cardinality(MemberIds(rooms[k])) = 2 }

\* the rooms that are played by two different connections
Duels == { k \in Pairs : rooms[k].status = "playing" }

\* C31: handlers run one after the other, so if both members of a playing
\* room send make-move for the same empty cell, in either order exactly one
\* move is applied, that of the player at currentPlayerIndex: the cell gets
\* that player's symbol and the other move leaves the state unchanged,
\* whether it comes first (it is not the sender's turn) or second (the cell
\* is taken, and the game may have ended).
C31_SameCellRace ==
    \A r \in JoinNames, idx \in Cells :
        LET key == ToUpperCase(r) IN
        key \in Pairs =>
            LET room == rooms[key]
                ids == MemberIds(room)
            IN
            ids \subseteq LiveSockets =>
                IF room.board[idx] # Null
                THEN \A s \in ids : /\ MakeMoveRooms(s, r, idx) = rooms
                                    /\ MakeMoveOut(s, r, idx) = {}
                ELSE key \in Duels =>
                        LET turn == room.players[room.currentPlayerIndex + 1]
                            other == room.players[2 - room.currentPlayerIndex]
                        IN
                        /\ MakeMoveRooms(other.id, r, idx) = rooms
                        /\ MakeMoveOut(other.id, r, idx) = {}
                        /\ MakeMoveRooms(turn.id, r, idx)[key].board
                              = [room.board EXCEPT ![idx] = turn.symbol]

\* the first move of a game has been applied and a move after it has just
\* been ignored: one cell is taken, by the first player
C31_Witness ==
    \E k \in Duels :
        /\ Cardinality(Filled(rooms[k].board)) = 1
        /\ \E i \in Cells : rooms[k].board[i] = rooms[k].players[1].symbol
        /\ rooms[k].currentPlayerIndex = 1
        /\ MemberIds(rooms[k]) \subseteq LiveSockets
        /\ out = {}

\* C32: a room leaves the store only in a disconnect that removes its last
\* remaining player: no create-room, join-room, make-move or reset-game
\* removes a room, and a disconnect removes only rooms whose single player
\* entry is the disconnecting socket.
C32_RoomRemovedOnlyWhenEmpty ==
    \A s \in LiveSockets :
        /\ \A k \in DOMAIN rooms \ DOMAIN DisconnectRooms(s) :
              /\ Len(rooms[k].players) = 1
              /\ rooms[k].players[1].id = s
        /\ \A r \in InputNames :
              /\ DOMAIN rooms \subseteq
                    DOMAIN CreateRoomRooms(s, r, NameOf(s), FALSE, Undefined)
              /\ DOMAIN rooms \subseteq
                    DOMAIN JoinRoomRooms(s, r, NameOf(s), Undefined, TRUE)
              /\ DOMAIN rooms \subseteq DOMAIN ResetGameRooms(s, r)
              /\ \A idx \in Indices : DOMAIN rooms \subseteq DOMAIN MakeMoveRooms(s, r, idx)

\* the last player of the only room has just disconnected while another
\* connection is open: the store is empty and the empty list is broadcast
C32_Witness ==
    /\ rooms = EmptyMap
    /\ LiveSockets # {}
    /\ \E s \in Ids : sockets[s] = "closed"
    /\ out = { RoomListMsg(LiveSockets, EmptyMap) }

\* C33: a reset-game sent a second time by the same member, with no other
\* event in between, leaves the room as it was after the first one.
C33_VoteIdempotent ==
    \A s \in LiveSockets, r \in InputNames :
        LET key == ToUpperCase(r) IN
        (key \in DOMAIN rooms /\ s \in MemberIds(rooms[key])) =>
            LET once == ResetGameRooms(s, r)[key] IN
            VoteReset(once, s) = once

\* C34: a join-room naming a room that is not in the store sends "Room ID not
\* found" to the requester only and changes nothing; a make-move and a
\* reset-game naming such a room change nothing and emit nothing.
C34_AbsentRoom ==
    \A s \in LiveSockets, r \in InputNames :
        ToUpperCase(r) \notin DOMAIN rooms =>
            /\ \A pw \in JoinPasswords, link \in BOOLEAN :
                  /\ JoinRoomOut(s, r, NameOf(s), pw, link)
                        = { ErrorMsg(s, "Room ID not found") }
                  /\ JoinRoomRooms(s, r, NameOf(s), pw, link) = rooms
                  /\ JoinRoomChannels(s, r, pw, link) = channels
            /\ \A idx \in Indices :
                  /\ MakeMoveRooms(s, r, idx) = rooms
                  /\ MakeMoveOut(s, r, idx) = {}
            /\ ResetGameRooms(s, r) = rooms
            /\ ResetGameOut(s, r) = {}

\* a join-room for the name of a room that its last member has left has just
\* been answered "Room ID not found"
C34_Witness ==
    \E s \in LiveSockets :
        /\ rooms = EmptyMap
        /\ \E c \in Ids : sockets[c] = "closed"
        /\ out = { ErrorMsg(s, "Room ID not found") }

\* C35: no room lists the same connection id twice: a join-room of a member
\* of the room adds no second Player for it and does not start a game.
C35_NoDoubleEntry ==
    \A k \in DOMAIN rooms :
        Cardinality(MemberIds(rooms[k])) = Len(rooms[k].players)

\* C36: every id in a room's resetVotes is the id of a current member of the
\* room.
C36_VotesOfMembers ==
    \A k \in DOMAIN rooms :
        Range(rooms[k].resetVotes) \subseteq MemberIds(rooms[k])

C38_PlayingNotTerminal ==
    \A k \in DOMAIN rooms :
        rooms[k].status = "playing" =>
            /\ LineSymbols(rooms[k].board) = {}
            /\ ~BoardFull(rooms[k].board)

\* the eighth move of a game has just been applied and the game goes on
C38_Witness ==
    \E k \in DOMAIN rooms :
        /\ rooms[k].status = "playing"
        /\ Cardinality(Filled(rooms[k].board)) = 8
        /\ out = { RoomUpdatedMsg(channels[k], rooms[k]) }

C40_DrawIsDraw ==
    \A k \in DOMAIN rooms :
        rooms[k].winner = Draw =>
            /\ BoardFull(rooms[k].board)
            /\ LineSymbols(rooms[k].board) = {}

====
